---- MODULE Spec2Model ----
(***************************************************************************)
(* Model of vmdb/plugins/grub_plugin.py: the GrubStepRunner step runner.   *)
(*                                                                         *)
(* Strings that the code parses (partition device names, the text of       *)
(* /etc/default/grub) are sequences of one-character strings.  File-system *)
(* paths that the code only joins and normalises are sequences of path     *)
(* components of an absolute path: /mnt/root is <<"mnt", "root">>.         *)
(***************************************************************************)
EXTENDS Integers, Sequences, FiniteSets, TLC

\* ------------------------------------------------------------------ bounds
\* Number of step executions the orchestrator starts on one state object.
MaxCalls == 2
\* Longest run of decimal digits in a generated partition device name.
MaxDigits == 2
\* Number of lines in a generated /etc/default/grub.
MaxLines == 2

\* --------------------------------------------------------- string helpers
Reverse(s) == [i \in 1..Len(s) |-> s[Len(s) + 1 - i]]

Last(s) == s[Len(s)]

Front(s) == SubSeq(s, 1, Len(s) - 1)

\* str.startswith
StartsWith(s, prefix) ==
    /\ Len(s) >= Len(prefix)
    /\ SubSeq(s, 1, Len(prefix)) = prefix

RECURSIVE Concat(_)
Concat(ss) == IF ss = <<>> THEN <<>> ELSE Head(ss) \o Concat(Tail(ss))

\* sep.join(ss)
RECURSIVE Join(_, _)
Join(sep, ss) ==
    IF ss = <<>> THEN <<>>
    ELSE IF Len(ss) = 1 THEN ss[1]
    ELSE ss[1] \o sep \o Join(sep, Tail(ss))

\* s without its last element equal to x.
RECURSIVE RemoveLast(_, _)
RemoveLast(s, x) ==
    IF s = <<>> THEN <<>>
    ELSE IF Last(s) = x THEN Front(s)
    ELSE Append(RemoveLast(Front(s), x), Last(s))

\* ------------------------------------------------------- string constants
DEV_MAPPER_LOOP ==
    <<"/", "d", "e", "v", "/", "m", "a", "p", "p", "e", "r", "/", "l", "o", "o", "p">>

DEV_MAPPER == <<"/", "d", "e", "v", "/", "m", "a", "p", "p", "e", "r", "/">>

DEV_SLASH == <<"/", "d", "e", "v", "/">>

CMDLINE_KEY ==
    <<"G", "R", "U", "B", "_", "C", "M", "D", "L", "I", "N", "E", "_",
      "L", "I", "N", "U", "X", "_", "D", "E", "F", "A", "U", "L", "T">>

kernel_params ==
    << <<"b", "i", "o", "s", "d", "e", "v", "n", "a", "m", "e", "=", "0">>,
       <<"n", "e", "t", ".", "i", "f", "n", "a", "m", "e", "s", "=", "0">>,
       <<"c", "o", "n", "s", "o", "l", "e", "b", "l", "a", "n", "k", "=", "0">>,
       <<"s", "y", "s", "t", "e", "m", "d", ".", "s", "h", "o", "w", "_",
         "s", "t", "a", "t", "u", "s", "=", "t", "r", "u", "e">> >>

grub_package == "grub-efi-amd64"

grub_target == "x86_64-efi"

\* ---------------------------------------------------------------- results
\* How a call ended: not (yet) ended, returned, or raised exception exc at
\* source line `line`.
Pending == [status |-> "pending", exc |-> "", line |-> 0]

Returned == [status |-> "returned", exc |-> "", line |-> 0]

Raised(exc, line) == [status |-> "raised", exc |-> exc, line |-> line]

\* ------------------------------------------------------------------ paths
\* os.path.join(a, b) for a relative b.
PathJoin(a, b) == a \o b

\* os.path.normpath of an absolute path: drops empty and "." components and
\* resolves ".." against the component before it (".." at the root is dropped).
RECURSIVE NormInto(_, _)
NormInto(done, rest) ==
    IF rest = <<>> THEN done
    ELSE LET c == Head(rest) IN
         IF c = "" \/ c = "." THEN NormInto(done, Tail(rest))
         ELSE IF c = ".." THEN
             NormInto(IF done = <<>> THEN <<>> ELSE Front(done), Tail(rest))
         ELSE NormInto(Append(done, c), Tail(rest))

NormPath(p) == NormInto(<<>>, p)

\* chroot_path(chroot, path): os.path.normpath(os.path.join(chroot, '.' + path)).
\* '.' + '/boot/efi' is the relative path ./boot/efi.
chroot_path(chroot, path) == NormPath(PathJoin(chroot, <<".">> \o path))

\* ------------------------------------------------- get_image_loop_device
Digits == {"0", "1", "2", "3", "4", "5", "6", "7", "8", "9"}

\* Length of the longest run of \d characters of s that starts at index i.
RECURSIVE DigitRun(_, _)
DigitRun(s, i) ==
    IF i <= Len(s) /\ s[i] \in Digits THEN 1 + DigitRun(s, i + 1) ELSE 0

\* re.match('^/dev/mapper/(?P<loop>loop\d+)p\d+$', s): the match's group
\* 'loop', or <<>> when there is no match.  \d+ is greedy and the character
\* after it ('p', the end) is no digit, so the longest run is the only
\* candidate; '$' matches at the end and before one final newline.
ReMatchLoop(s) ==
    LET n == DigitRun(s, Len(DEV_MAPPER_LOOP) + 1)
        pAt == Len(DEV_MAPPER_LOOP) + n + 1
        m == DigitRun(s, pAt + 1)
        end == pAt + m
    IN  IF /\ StartsWith(s, DEV_MAPPER_LOOP)
           /\ n >= 1
           /\ pAt <= Len(s)
           /\ s[pAt] = "p"
           /\ m >= 1
           /\ \/ end = Len(s)
              \/ end + 1 = Len(s) /\ s[Len(s)] = "\n"
        THEN [matched |-> TRUE,
              loop |-> SubSeq(s, Len(DEV_MAPPER) + 1, Len(DEV_MAPPER_LOOP) + n)]
        ELSE [matched |-> FALSE, loop |-> <<>>]

\* get_image_loop_device that takes loop<N>p<M> after any directory: no
\* assertion on the start, and the pattern '/(?P<loop>loop\d+)p\d+$' searched.
get_image_loop_device_AnyDirectory(partition_device) ==
    LET s == partition_device
        hit(a) ==
            LET n == DigitRun(s, a + 5)
                pAt == a + 5 + n
                m == DigitRun(s, pAt + 1)
            IN  /\ a + 4 <= Len(s)
                /\ SubSeq(s, a, a + 4) = <<"/", "l", "o", "o", "p">>
                /\ n >= 1
                /\ pAt <= Len(s)
                /\ s[pAt] = "p"
                /\ m >= 1
                /\ pAt + m = Len(s)
        starts == {a \in 1..Len(s) : hit(a)}
    IN  IF starts = {}
        THEN [result |-> Raised("AssertionError", 160), value |-> <<>>]
        ELSE LET a == CHOOSE x \in starts : TRUE IN
             [result |-> Returned,
              value |-> DEV_SLASH \o SubSeq(s, a + 1, a + 4 + DigitRun(s, a + 5))]

\* get_image_loop_device(partition_device): the value returned, or the
\* assertion that fails.
get_image_loop_device(partition_device) ==
    IF ~StartsWith(partition_device, DEV_MAPPER_LOOP)
    THEN [result |-> Raised("AssertionError", 157), value |-> <<>>]
    ELSE LET m == ReMatchLoop(partition_device) IN
         IF ~m.matched
         THEN [result |-> Raised("AssertionError", 160), value |-> <<>>]
         ELSE [result |-> Returned, value |-> DEV_SLASH \o m.loop]

\* ----------------------------------------------- set_grub_cmdline_config
\* The line boundaries of str.splitlines() that a text here can contain.
LineBreaks == {"\n", "\r", "\f"}

\* text.splitlines(): a line ends with a boundary character, "\r\n" being
\* one boundary; the boundaries are dropped, and what follows the last one
\* is a line unless it is empty.
splitlines(text) ==
    LET n == Len(text)
        IsEnd(i) ==
            /\ text[i] \in LineBreaks
            /\ ~(text[i] = "\r" /\ i < n /\ text[i + 1] = "\n")
        Ends == {i \in 1..n : IsEnd(i)}
        K == Cardinality(Ends)
        EndAt(k) ==
            IF k = 0 THEN 0
            ELSE CHOOSE e \in Ends : Cardinality({x \in Ends : x <= e}) = k
        LineTo(from, e) ==
            SubSeq(text, from,
                   IF text[e] = "\n" /\ e - 1 >= from /\ text[e - 1] = "\r"
                   THEN e - 2 ELSE e - 1)
        ended == [k \in 1..K |-> LineTo(EndAt(k - 1) + 1, EndAt(k))]
    IN  ended \o (IF EndAt(K) < n THEN <<SubSeq(text, EndAt(K) + 1, n)>> ELSE <<>>)

\* The line appended: 'GRUB_CMDLINE_LINUX_DEFAULT="{}"'.format(param_string).
CmdlineLine(params) ==
    CMDLINE_KEY \o <<"=", "\"">> \o Join(<<" ">>, params) \o <<"\"">>

\* The filter with the '=' of an assignment in the prefix.
KeepLine_Assignment(line) == ~StartsWith(line, CMDLINE_KEY \o <<"=">>)

\* The filter of the list comprehension.
KeepLine(line) == ~StartsWith(line, CMDLINE_KEY)

\* The text set_grub_cmdline_config writes back for the text it read.
grub_cmdline_text(text, params) ==
    LET lines == SelectSeq(splitlines(text), KeepLine)
    IN  Join(<<"\n">>, Append(lines, CmdlineLine(params))) \o <<"\n">>

\* ------------------------------------------------------------------ state
VARIABLES
    step,                 \* the step mapping handed to run / teardown
    mounts,               \* state.mounts: file system tag -> chroot path
    parts,                \* state.parts: partition tag -> device name
    hasattr_grub_mounts,  \* whether state has the attribute grub_mounts
    grub_mounts,          \* state.grub_mounts, the tracked mount points
    dirs,                 \* directories that exist
    mounted,              \* mount points the kernel holds, oldest first
    grub_file,            \* <chroot>/etc/default/grub: [exists, text]
    pc,                   \* position in the code
    calls,                \* entry points called in this step execution
    ncalls,               \* step executions started so far
    chroot,               \* run's local chroot
    efi_dev,              \* run's local efi_dev
    image_dev,            \* run's local image_dev
    bind_i,               \* bind_mount_many's position in paths
    run_result,           \* how run ended in this step execution
    teardown_result,      \* how teardown ended in this step execution
    trace,                \* commands and file writes of this step execution
    appended,             \* paths appended to grub_mounts in this execution
    text_read,            \* the text set_grub_cmdline_config read last
    run_entry,            \* what run found when it was called
    unmount_entry,        \* what the current unmount found when it was called
    ever_mounted,         \* paths whose mount command has ever succeeded
    umount_failed         \* whether a umount command has ever failed

state_vars == <<mounts, parts, hasattr_grub_mounts, grub_mounts>>

world_vars == <<dirs, mounted, grub_file>>

locals == <<chroot, efi_dev, image_dev, bind_i>>

results == <<run_result, teardown_result>>

\* History kept for the properties; the code reads none of it.
history ==
    <<trace, appended, text_read, run_entry, unmount_entry, ever_mounted,
      umount_failed>>

vars == <<step, state_vars, world_vars, pc, calls, ncalls, locals, results, history>>

\* ----------------------------------------------------------------- inputs
\* A key the step mapping does not hold.
Missing == "<missing>"

StepKeys == {"grub", "device", "root-fs", "root-part", "efi-part"}

MkStep(g, d, f, r, e) ==
    ("grub" :> g) @@ ("device" :> d) @@ ("root-fs" :> f)
        @@ ("root-part" :> r) @@ ("efi-part" :> e)

\* The step mappings the orchestrator hands over.
StepSet ==
    { MkStep(g, d, f, r, e) :
        g \in {"uefi", "bios", Missing},
        d \in {"/img.raw", Missing},
        f \in {"root", "nofs", Missing},
        r \in {"p1", "nopart", Missing},
        e \in {"p2", "nopart", Missing} }

GoodStep == MkStep("uefi", "/img.raw", "root", "p1", "p2")

NoStep == [k \in StepKeys |-> Missing]

\* key in step
HasKey(s, key) == s[key] # Missing

TheChroot == <<"mnt", "root">>

EFI_DEVICE == DEV_MAPPER_LOOP \o <<"3", "p", "2">>

GoodRootDevice == DEV_MAPPER_LOOP \o <<"3", "p", "1">>

\* Root partition devices of the state objects of Spec.
RootDevices == {GoodRootDevice, <<"/", "d", "e", "v", "/", "s", "d", "a", "1">>}

PartsWith(root_dev) ==
    [t \in {"p1", "p2"} |-> IF t = "p1" THEN root_dev ELSE EFI_DEVICE]

NoFile == [exists |-> FALSE, text |-> <<>>]

FileOf(text) == [exists |-> TRUE, text |-> text]

GRUB_TIMEOUT_LINE ==
    <<"G", "R", "U", "B", "_", "T", "I", "M", "E", "O", "U", "T", "=", "5">>

\* Texts of /etc/default/grub of Spec.
SampleTexts ==
    { CMDLINE_KEY \o <<"=", "q", "\n">> \o GRUB_TIMEOUT_LINE \o <<"\n">>,
      GRUB_TIMEOUT_LINE }

\* Every directory on the way to path p, and p.
Prefixes(p) == {SubSeq(p, 1, k) : k \in 0..Len(p)}

\* ['/dev', '/proc', '/sys'], line 116.
BindPaths == << <<"dev">>, <<"proc">>, <<"sys">> >>

\* '/boot/efi', line 117.
EfiMountPoint == <<"boot", "efi">>

\* '/etc/default/grub', line 199.
GrubDefaultPath == <<"etc", "default", "grub">>

NoRunEntry == [grub_mounts |-> <<>>, hasattr_grub_mounts |-> FALSE, dirs |-> {}]

NoUnmountEntry == [grub_mounts |-> <<>>, hasattr_grub_mounts |-> FALSE, at |-> 0]

\* What is the same in every initial state.
InitCommon ==
    /\ mounts = [t \in {"root"} |-> TheChroot]
    /\ hasattr_grub_mounts = FALSE
    /\ grub_mounts = <<>>
    /\ dirs = Prefixes(TheChroot)
    /\ mounted = <<>>
    /\ chroot = <<>>
    /\ efi_dev = <<>>
    /\ image_dev = <<>>
    /\ bind_i = 0
    /\ run_result = Pending
    /\ teardown_result = Pending
    /\ trace = <<>>
    /\ appended = <<>>
    /\ text_read = <<>>
    /\ unmount_entry = NoUnmountEntry
    /\ ever_mounted = {}
    /\ umount_failed = FALSE

\* A fresh state object in the hands of the orchestrator.
Init ==
    /\ InitCommon
    /\ step = NoStep
    /\ parts \in {PartsWith(d) : d \in RootDevices}
    /\ grub_file \in {NoFile} \cup {FileOf(t) : t \in SampleTexts}
    /\ pc = "idle"
    /\ calls = <<>>
    /\ ncalls = 0
    /\ run_entry = NoRunEntry

\* ---------------------------------------------------- run, lines 97-114
ResolveFailure(exc, line) ==
    [result |-> Raised(exc, line), chroot |-> <<>>, efi_dev |-> <<>>, image_dev |-> <<>>]

\* The lookups of run from root-part on, lines 108-114.
ResolveParts(s, state_mounts, state_parts) ==
    IF ~HasKey(s, "root-part") THEN ResolveFailure("KeyError", 108)
    ELSE IF s["root-part"] \notin DOMAIN state_parts THEN ResolveFailure("KeyError", 109)
    ELSE IF ~HasKey(s, "efi-part") THEN ResolveFailure("KeyError", 111)
    ELSE IF s["efi-part"] \notin DOMAIN state_parts THEN ResolveFailure("KeyError", 112)
    ELSE LET loop == get_image_loop_device(state_parts[s["root-part"]]) IN
         IF loop.result.status = "raised"
         THEN ResolveFailure(loop.result.exc, loop.result.line)
         ELSE [result |-> Returned,
               chroot |-> state_mounts[s["root-fs"]],
               efi_dev |-> state_parts[s["efi-part"]],
               image_dev |-> loop.value]

\* The lookups of run from root-fs on, lines 105-114.
ResolveRootFs(s, state_mounts, state_parts) ==
    IF ~HasKey(s, "root-fs") THEN ResolveFailure("KeyError", 105)
    ELSE IF s["root-fs"] \notin DOMAIN state_mounts THEN ResolveFailure("KeyError", 106)
    ELSE ResolveParts(s, state_mounts, state_parts)

\* Resolve without the assertion of line 98.
Resolve_NoFlavorCheck(s, state_mounts, state_parts) ==
    IF ~HasKey(s, "grub") THEN ResolveFailure("KeyError", 97)
    ELSE IF ~HasKey(s, "device") THEN ResolveFailure("KeyError", 103)
    ELSE ResolveRootFs(s, state_mounts, state_parts)

\* Resolve without the lookup of line 103.
Resolve_DeviceOptional(s, state_mounts, state_parts) ==
    IF ~HasKey(s, "grub") THEN ResolveFailure("KeyError", 97)
    ELSE IF s["grub"] # "uefi" THEN ResolveFailure("AssertionError", 98)
    ELSE ResolveRootFs(s, state_mounts, state_parts)

\* Resolve with the image device taken from the step's device key.
Resolve_ImageFromDevice(s, state_mounts, state_parts) ==
    IF ~HasKey(s, "grub") THEN ResolveFailure("KeyError", 97)
    ELSE IF s["grub"] # "uefi" THEN ResolveFailure("AssertionError", 98)
    ELSE IF ~HasKey(s, "device") THEN ResolveFailure("KeyError", 103)
    ELSE LET r == ResolveRootFs(s, state_mounts, state_parts) IN
         IF r.result.status = "raised" THEN r
         ELSE [r EXCEPT !.image_dev = <<s["device"]>>]

\* The lookups and checks of run before its first mount, in source order:
\* the first exception raised, or the locals they set.
Resolve(s, state_mounts, state_parts) ==
    IF ~HasKey(s, "grub") THEN ResolveFailure("KeyError", 97)
    ELSE IF s["grub"] # "uefi" THEN ResolveFailure("AssertionError", 98)
    ELSE IF ~HasKey(s, "device") THEN ResolveFailure("KeyError", 103)
    ELSE ResolveRootFs(s, state_mounts, state_parts)

\* An exception leaves the entry point that is running.
Raise(e) ==
    /\ pc' = "returned"
    /\ IF Last(calls) = "run"
       THEN run_result' = e /\ UNCHANGED teardown_result
       ELSE teardown_result' = e /\ UNCHANGED run_result

\* The entry point that is running returns.
Return ==
    /\ pc' = "returned"
    /\ IF Last(calls) = "run"
       THEN run_result' = Returned /\ UNCHANGED teardown_result
       ELSE teardown_result' = Returned /\ UNCHANGED run_result

\* An entry of trace: a command (or file write) and whether it succeeded.
Cmd(cmd, words, dev, path, ok) ==
    [cmd |-> cmd, words |-> words, dev |-> dev, path |-> path, ok |-> ok]

run_resolve ==
    /\ pc = "run"
    /\ LET r == Resolve(step, mounts, parts) IN
       IF r.result.status = "raised"
       THEN /\ Raise(r.result)
            /\ UNCHANGED locals
       ELSE /\ chroot' = r.chroot
            /\ efi_dev' = r.efi_dev
            /\ image_dev' = r.image_dev
            /\ bind_i' = 1
            /\ pc' = "bind_mount_many"
            /\ UNCHANGED results
    /\ UNCHANGED <<step, state_vars, world_vars, calls, ncalls, history>>

\* ------------------------------------------------- mount, lines 169-183
\* mount with the path tracked before the mount command has run.
mount_TrackFirst(c, path, mount_point, mount_opts, ok) ==
    LET cp == chroot_path(c, mount_point) IN
    /\ dirs' = IF cp \in dirs THEN dirs ELSE dirs \cup Prefixes(cp)
    /\ trace' = Append(trace, [cmd |-> "mount", words |-> mount_opts,
                               dev |-> path, path |-> cp, ok |-> ok])
    /\ grub_mounts' = Append(grub_mounts, cp)
    /\ hasattr_grub_mounts' = TRUE
    /\ appended' = Append(appended, cp)
    /\ IF ok
       THEN mounted' = Append(mounted, cp) /\ ever_mounted' = ever_mounted \cup {cp}
       ELSE UNCHANGED <<mounted, ever_mounted>>

\* One call of mount; ok is the exit status of the mount command.
mount(c, path, mount_point, mount_opts, ok) ==
    LET cp == chroot_path(c, mount_point) IN
    /\ dirs' = IF cp \in dirs THEN dirs ELSE dirs \cup Prefixes(cp)
    /\ trace' = Append(trace, Cmd("mount", mount_opts, path, cp, ok))
    /\ IF ok
       THEN /\ mounted' = Append(mounted, cp)
            /\ ever_mounted' = ever_mounted \cup {cp}
            /\ grub_mounts' = Append(grub_mounts, cp)
            /\ hasattr_grub_mounts' = TRUE
            /\ appended' = Append(appended, cp)
       ELSE UNCHANGED <<mounted, ever_mounted, grub_mounts, hasattr_grub_mounts,
                        appended>>

\* One pass of the loop of bind_mount_many, lines 165-167.
bind_mount_many ==
    /\ pc = "bind_mount_many"
    /\ \E ok \in BOOLEAN :
        /\ mount(chroot, BindPaths[bind_i], BindPaths[bind_i], <<"--bind">>, ok)
        /\ IF ~ok
           THEN Raise(Raised("cliapp.AppException", 177)) /\ UNCHANGED bind_i
           ELSE /\ UNCHANGED results
                /\ IF bind_i < Len(BindPaths)
                   THEN bind_i' = bind_i + 1 /\ pc' = "bind_mount_many"
                   ELSE bind_i' = bind_i /\ pc' = "mount_efi"
    /\ UNCHANGED <<step, mounts, parts, grub_file, calls, ncalls, chroot,
                   efi_dev, image_dev, text_read, run_entry, unmount_entry,
                   umount_failed>>

\* mount_efi that also registers the mount point in state.mounts.
mount_efi_Registers ==
    /\ pc = "mount_efi"
    /\ \E ok \in BOOLEAN :
        /\ mount(chroot, efi_dev, EfiMountPoint, <<>>, ok)
        /\ IF ~ok
           THEN Raise(Raised("cliapp.AppException", 177)) /\ UNCHANGED mounts
           ELSE /\ pc' = "install_package"
                /\ UNCHANGED results
                /\ mounts' = [t \in DOMAIN mounts \cup {"efi"} |->
                                 IF t = "efi" THEN chroot_path(chroot, EfiMountPoint)
                                 ELSE mounts[t]]
    /\ UNCHANGED <<step, parts, grub_file, calls, ncalls, locals,
                   text_read, run_entry, unmount_entry, umount_failed>>

\* run, line 117.
mount_efi ==
    /\ pc = "mount_efi"
    /\ \E ok \in BOOLEAN :
        /\ mount(chroot, efi_dev, EfiMountPoint, <<>>, ok)
        /\ IF ~ok
           THEN Raise(Raised("cliapp.AppException", 177))
           ELSE pc' = "install_package" /\ UNCHANGED results
    /\ UNCHANGED <<step, mounts, parts, grub_file, calls, ncalls, locals,
                   text_read, run_entry, unmount_entry, umount_failed>>

\* ------------------------------------------------ chroot, lines 193-194
\* cliapp.runcmd(['chroot', chroot] + argv); dev is the device among argv.
chroot_cmd(c, argv, dev, ok) ==
    /\ trace' = Append(trace, Cmd("chroot", argv, dev, c, ok))
    /\ UNCHANGED <<appended, text_read, run_entry, unmount_entry, ever_mounted,
                   umount_failed>>

\* What every step of run between its mounts and its unmount leaves alone.
NoMountChange == UNCHANGED <<step, state_vars, dirs, mounted, calls, ncalls, locals>>

\* install_package with the exit status of apt-get ignored.
install_package_Unchecked ==
    /\ pc = "install_package"
    /\ \E ok \in BOOLEAN :
        chroot_cmd(chroot,
            <<"apt-get", "-y", "--no-show-progress", "install", grub_package>>,
            <<>>, ok)
    /\ pc' = "set_grub_cmdline_config"
    /\ UNCHANGED results
    /\ NoMountChange
    /\ UNCHANGED grub_file

\* install_package, lines 188-191, called at line 119.
install_package ==
    /\ pc = "install_package"
    /\ \E ok \in BOOLEAN :
        /\ chroot_cmd(chroot,
               <<"apt-get", "-y", "--no-show-progress", "install", grub_package>>,
               <<>>, ok)
        /\ IF ok
           THEN pc' = "set_grub_cmdline_config" /\ UNCHANGED results
           ELSE Raise(Raised("cliapp.AppException", 194))
    /\ NoMountChange
    /\ UNCHANGED grub_file

\* set_grub_cmdline_config, lines 196-210, called at line 127.
set_grub_cmdline_config ==
    /\ pc = "set_grub_cmdline_config"
    /\ IF ~grub_file.exists
       THEN /\ Raise(Raised("IOError", 201))
            /\ UNCHANGED <<grub_file, trace, text_read>>
       ELSE /\ text_read' = grub_file.text
            /\ grub_file' = FileOf(grub_cmdline_text(grub_file.text, kernel_params))
            /\ trace' = Append(trace,
                   Cmd("write", <<>>, <<>>, chroot_path(chroot, GrubDefaultPath), TRUE))
            /\ pc' = "grub_mkconfig"
            /\ UNCHANGED results
    /\ NoMountChange
    /\ UNCHANGED <<appended, run_entry, unmount_entry, ever_mounted, umount_failed>>

\* run, line 129.
grub_mkconfig ==
    /\ pc = "grub_mkconfig"
    /\ \E ok \in BOOLEAN :
        /\ chroot_cmd(chroot, <<"grub-mkconfig", "-o", "/boot/grub/grub.cfg">>,
               <<>>, ok)
        /\ IF ok
           THEN pc' = "grub_install" /\ UNCHANGED results
           ELSE Raise(Raised("cliapp.AppException", 194))
    /\ NoMountChange
    /\ UNCHANGED grub_file

\* run, lines 130-143: grub-install, then the call of unmount.
grub_install ==
    /\ pc = "grub_install"
    /\ \E ok \in BOOLEAN :
        /\ chroot_cmd(chroot,
               <<"grub-install", "--target=" \o grub_target, "--no-nvram",
                 "--force-extra-removable", "--no-floppy",
                 "--modules=part_msdos part_gpt",
                 "--grub-mkdevicemap=/boot/grub/device.map">>,
               image_dev, ok)
        /\ IF ok
           THEN pc' = "unmount" /\ UNCHANGED results
           ELSE Raise(Raised("cliapp.AppException", 194))
    /\ NoMountChange
    /\ UNCHANGED grub_file

\* Whether the kernel holds a mount at path p.
IsMounted(p) == \E i \in 1..Len(mounted) : mounted[i] = p

\* ----------------------------------------------- unmount, lines 148-153
\* unmount reading state.grub_mounts without a default.
unmount_enter_NoDefault ==
    /\ pc = "unmount"
    /\ unmount_entry' = [grub_mounts |-> grub_mounts,
                         hasattr_grub_mounts |-> hasattr_grub_mounts,
                         at |-> Len(trace)]
    /\ IF hasattr_grub_mounts
       THEN /\ grub_mounts' = Reverse(grub_mounts)
            /\ pc' = "unmount_loop"
            /\ UNCHANGED results
       ELSE /\ Raise(Raised("AttributeError", 149))
            /\ UNCHANGED grub_mounts
    /\ UNCHANGED <<step, mounts, parts, hasattr_grub_mounts, world_vars, calls,
                   ncalls, locals, trace, appended, text_read, run_entry,
                   ever_mounted, umount_failed>>

\* Lines 149-150: mounts is state's own list and is reversed in place;
\* without the attribute it is a fresh empty list, which state never holds.
unmount_enter ==
    /\ pc = "unmount"
    /\ unmount_entry' = [grub_mounts |-> grub_mounts,
                         hasattr_grub_mounts |-> hasattr_grub_mounts,
                         at |-> Len(trace)]
    /\ grub_mounts' = IF hasattr_grub_mounts THEN Reverse(grub_mounts) ELSE grub_mounts
    /\ pc' = "unmount_loop"
    /\ UNCHANGED <<step, mounts, parts, hasattr_grub_mounts, world_vars, calls,
                   ncalls, locals, results, trace, appended, text_read,
                   run_entry, ever_mounted, umount_failed>>

\* unmount with `if mounts:` for `while mounts:`.
unmount_loop_Once ==
    /\ pc = "unmount_loop"
    /\ IF grub_mounts = <<>>
       THEN /\ Return
            /\ UNCHANGED <<grub_mounts, mounted, trace, umount_failed>>
       ELSE LET mount_point == Last(grub_mounts) IN
            \E ok \in IF IsMounted(mount_point) THEN BOOLEAN ELSE {FALSE} :
               /\ grub_mounts' = Front(grub_mounts)
               /\ trace' = Append(trace, [cmd |-> "umount", words |-> <<>>,
                                          dev |-> <<>>, path |-> mount_point,
                                          ok |-> ok])
               /\ umount_failed' = (umount_failed \/ ~ok)
               /\ IF ok
                  THEN mounted' = RemoveLast(mounted, mount_point) /\ Return
                  ELSE Raise(Raised("cliapp.AppException", 153)) /\ UNCHANGED mounted
    /\ UNCHANGED <<step, mounts, parts, hasattr_grub_mounts, dirs, grub_file,
                   calls, ncalls, locals, appended, text_read, run_entry,
                   unmount_entry, ever_mounted>>

\* unmount with `while len(mounts) > 1:` for `while mounts:`.
unmount_loop_KeepLast ==
    /\ pc = "unmount_loop"
    /\ IF Len(grub_mounts) <= 1
       THEN /\ Return
            /\ UNCHANGED <<grub_mounts, mounted, trace, umount_failed>>
       ELSE LET mount_point == Last(grub_mounts) IN
            \E ok \in IF IsMounted(mount_point) THEN BOOLEAN ELSE {FALSE} :
               /\ grub_mounts' = Front(grub_mounts)
               /\ trace' = Append(trace, [cmd |-> "umount", words |-> <<>>,
                                          dev |-> <<>>, path |-> mount_point,
                                          ok |-> ok])
               /\ umount_failed' = (umount_failed \/ ~ok)
               /\ IF ok
                  THEN /\ mounted' = RemoveLast(mounted, mount_point)
                       /\ pc' = "unmount_loop"
                       /\ UNCHANGED results
                  ELSE /\ Raise(Raised("cliapp.AppException", 153))
                       /\ UNCHANGED mounted
    /\ UNCHANGED <<step, mounts, parts, hasattr_grub_mounts, dirs, grub_file,
                   calls, ncalls, locals, appended, text_read, run_entry,
                   unmount_entry, ever_mounted>>

\* Lines 151-153: one pass of the loop, or its end and the return.  umount
\* can succeed only on a path that is mounted.
unmount_loop ==
    /\ pc = "unmount_loop"
    /\ IF grub_mounts = <<>>
       THEN /\ Return
            /\ UNCHANGED <<grub_mounts, mounted, trace, umount_failed>>
       ELSE LET mount_point == Last(grub_mounts) IN
            \E ok \in IF IsMounted(mount_point) THEN BOOLEAN ELSE {FALSE} :
               /\ grub_mounts' = Front(grub_mounts)
               /\ trace' = Append(trace, Cmd("umount", <<>>, <<>>, mount_point, ok))
               /\ umount_failed' = (umount_failed \/ ~ok)
               /\ IF ok
                  THEN /\ mounted' = RemoveLast(mounted, mount_point)
                       /\ pc' = "unmount_loop"
                       /\ UNCHANGED results
                  ELSE /\ Raise(Raised("cliapp.AppException", 153))
                       /\ UNCHANGED mounted
    /\ UNCHANGED <<step, mounts, parts, hasattr_grub_mounts, dirs, grub_file,
                   calls, ncalls, locals, appended, text_read, run_entry,
                   unmount_entry, ever_mounted>>

\* ----------------------------------------------------------- orchestrator
\* The caller of the step runner: it starts a step execution with run and
\* follows run, however it ended, by teardown; it may also call teardown
\* alone.  One execution at a time, on the one state object.
NewExecution ==
    /\ pc = "idle"
    /\ ncalls < MaxCalls
    /\ ncalls' = ncalls + 1
    /\ step' \in StepSet
    /\ trace' = <<>>
    /\ appended' = <<>>
    /\ text_read' = <<>>
    /\ run_result' = Pending
    /\ teardown_result' = Pending
    /\ UNCHANGED <<state_vars, world_vars, locals, unmount_entry, ever_mounted,
                   umount_failed>>

\* run is called, line 96.
call_run ==
    /\ NewExecution
    /\ calls' = <<"run">>
    /\ pc' = "run"
    /\ run_entry' = [grub_mounts |-> grub_mounts,
                     hasattr_grub_mounts |-> hasattr_grub_mounts,
                     dirs |-> dirs]

\* teardown is called with no run before it, lines 145-146.
call_teardown ==
    /\ NewExecution
    /\ calls' = <<"teardown">>
    /\ pc' = "unmount"
    /\ UNCHANGED run_entry

\* teardown is called after run has returned or raised, lines 145-146.
call_teardown_after_run ==
    /\ pc = "returned"
    /\ calls = <<"run">>
    /\ calls' = <<"run", "teardown">>
    /\ pc' = "unmount"
    /\ UNCHANGED <<step, state_vars, world_vars, ncalls, locals, results, history>>

\* The step execution is over; its locals are gone.
next_step ==
    /\ pc = "returned"
    /\ Last(calls) = "teardown"
    /\ pc' = "idle"
    /\ step' = NoStep
    /\ calls' = <<>>
    /\ chroot' = <<>>
    /\ efi_dev' = <<>>
    /\ image_dev' = <<>>
    /\ bind_i' = 0
    /\ run_result' = Pending
    /\ teardown_result' = Pending
    /\ trace' = <<>>
    /\ appended' = <<>>
    /\ text_read' = <<>>
    /\ run_entry' = NoRunEntry
    /\ unmount_entry' = NoUnmountEntry
    /\ UNCHANGED <<state_vars, world_vars, ncalls, ever_mounted, umount_failed>>

\* The steps of one call of run or teardown.
RunSteps ==
    \/ run_resolve
    \/ bind_mount_many
    \/ mount_efi
    \/ install_package
    \/ set_grub_cmdline_config
    \/ grub_mkconfig
    \/ grub_install
    \/ unmount_enter
    \/ unmount_loop

Next ==
    \/ call_run
    \/ call_teardown
    \/ call_teardown_after_run
    \/ next_step
    \/ RunSteps

Spec == Init /\ [][Next]_vars

\* ------------------------------------- one run on generated device names
\* Digits the generated names are made of.
GenDigits == {"0", "3"}

DigitStrings == UNION {[1..n -> GenDigits] : n \in 0..MaxDigits}

\* Names made of a directory, a stem, a number, a separator, a number and
\* a tail; some have the shape /dev/mapper/loop<N>p<M> and most do not.
DeviceNames ==
    { Concat(<<pre, stem, n, sep, m, tail>>) :
        pre \in {DEV_MAPPER, DEV_SLASH, <<"/", "x">> \o DEV_MAPPER},
        stem \in {<<"l", "o", "o", "p">>, <<"l", "o">>},
        n \in DigitStrings,
        sep \in {<<"p">>, <<>>},
        m \in DigitStrings,
        tail \in {<<>>, <<"\n">>, <<"x">>} }

\* run has just been called on a fresh state object.
InitInRun ==
    /\ InitCommon
    /\ step = GoodStep
    /\ pc = "run"
    /\ calls = <<"run">>
    /\ ncalls = 1
    /\ run_entry = [grub_mounts |-> <<>>, hasattr_grub_mounts |-> FALSE,
                    dirs |-> Prefixes(TheChroot)]

InitLoopDev ==
    /\ InitInRun
    /\ parts \in {PartsWith(d) : d \in DeviceNames}
    /\ grub_file = FileOf(GRUB_TIMEOUT_LINE)

\* One call of run, whatever the root partition's device is called.
SpecLoopDev == InitLoopDev /\ [][RunSteps]_vars

\* ------------------------------ one run on generated /etc/default/grub
GenLines ==
    { CMDLINE_KEY \o <<"=", "q">>,
      CMDLINE_KEY \o <<"_", "X", "=", "1">>,
      CMDLINE_KEY,
      <<" ">> \o CMDLINE_KEY \o <<"=", "x">>,
      GRUB_TIMEOUT_LINE,
      <<>> }

GenLineEnds == {<<"\n">>, <<"\r", "\n">>, <<>>}

GenPieces == {l \o e : l \in GenLines, e \in GenLineEnds}

GrubTexts == UNION {{Concat(ps) : ps \in [1..n -> GenPieces]} : n \in 0..MaxLines}

InitCmdline ==
    /\ InitInRun
    /\ parts = PartsWith(GoodRootDevice)
    /\ grub_file \in {FileOf(t) : t \in GrubTexts}

\* One call of run, whatever /etc/default/grub holds.
SpecCmdline == InitCmdline /\ [][RunSteps]_vars

\* ------------------------------------- one run on steps that differ in device
\* Values of the step's device key.
Devices == {"/img.raw", "/other.raw"}

StepsOfDevice ==
    { MkStep(g, d, f, r, "p2") :
        g \in {"uefi", "bios"},
        d \in Devices,
        f \in {"root", "nofs"},
        r \in {"p1", "nopart"} }

InitDevice ==
    /\ InitCommon
    /\ step \in StepsOfDevice
    /\ parts \in {PartsWith(d) : d \in RootDevices}
    /\ grub_file \in {NoFile} \cup {FileOf(t) : t \in SampleTexts}
    /\ pc = "run"
    /\ calls = <<"run">>
    /\ ncalls = 1
    /\ run_entry = [grub_mounts |-> <<>>, hasattr_grub_mounts |-> FALSE,
                    dirs |-> Prefixes(TheChroot)]

\* One call of run, whatever the step's device is.
SpecDevice == InitDevice /\ [][RunSteps]_vars

\* ----------------------------------------------------- trace vocabulary
\* How many umount commands of this step execution named path p.
UmountsOf(p) ==
    Cardinality({i \in 1..Len(trace) : trace[i].cmd = "umount" /\ trace[i].path = p})

\* The paths of the umount commands the current call of unmount has issued.
UmountsOfThisCall ==
    [k \in 1..(Len(trace) - unmount_entry.at) |-> trace[unmount_entry.at + k].path]

RunFailed == pc = "returned" /\ calls = <<"run">> /\ run_result.status = "raised"

TeardownAfterRunOver == pc = "returned" /\ calls = <<"run", "teardown">>

\* ------------------------------------------------------------------- C1
\* C1: when a command of run fails after at least one mount has succeeded,
\* every path this run mounted has had umount invoked on it by the time the
\* error leaves run.  (Stated as claimed; run has no cleanup on its error
\* paths, so TLC refutes it.)
C1_UnmountedBeforeErrorLeavesRun ==
    (RunFailed /\ appended # <<>>)
        => \A i \in 1..Len(appended) : UmountsOf(appended[i]) >= 1

\* ------------------------------------------------------------------- C2
\* C2: a call of unmount on tracked mounts M1..Mk issues its umount commands
\* in the order Mk, ..., M1.  (Stated as claimed; the list is reversed and
\* then popped from its end, so TLC refutes it.)
C2_UmountInReverseMountOrder ==
    pc = "unmount_loop"
        => UmountsOfThisCall
             = SubSeq(Reverse(unmount_entry.grub_mounts), 1, Len(UmountsOfThisCall))

\* ------------------------------------------------------------------- C3
\* C3: when run, ended either way, has been followed by teardown and no
\* umount command has failed, every path appended to grub_mounts in this
\* step execution has had umount invoked on it exactly once and grub_mounts
\* is empty.
C3_EachAppendedPathUnmountedOnce ==
    (TeardownAfterRunOver /\ ~umount_failed)
        => /\ grub_mounts = <<>>
           /\ \A i \in 1..Len(appended) : UmountsOf(appended[i]) = 1

\* run mounted all four paths and failed at grub-install; teardown is over.
C3_Witness ==
    /\ TeardownAfterRunOver
    /\ ~umount_failed
    /\ Len(appended) = 4
    /\ run_result = Raised("cliapp.AppException", 194)
    /\ teardown_result = Returned

\* ------------------------------------------------------------------- C4
\* The result of the entry point that is running.
CurrentResult == IF Last(calls) = "run" THEN run_result ELSE teardown_result

\* C4: a step of unmount taken while nothing is tracked (with or without a
\* grub_mounts attribute) issues no command, leaves state as it is and, when
\* it ends the call, ends it with a return, not with an error.
C4_UnmountWithNothingTracked ==
    [][ (pc \in {"unmount", "unmount_loop"} /\ grub_mounts = <<>>)
            => /\ UNCHANGED state_vars
               /\ UNCHANGED trace
               /\ pc' \in {"unmount_loop", "returned"}
               /\ pc' = "returned" => CurrentResult' = Returned ]_vars

\* teardown has returned on a state object no run has ever touched.
C4_Witness ==
    /\ pc = "returned"
    /\ calls = <<"teardown">>
    /\ ncalls = 1
    /\ ~hasattr_grub_mounts
    /\ teardown_result = Returned
    /\ trace = <<>>

\* ------------------------------------------------------------------- C5
\* The paths of the mount commands of this step execution that succeeded.
OkMountPaths ==
    LET idx == {i \in 1..Len(trace) : trace[i].cmd = "mount" /\ trace[i].ok}
        nth(k) == CHOOSE i \in idx : Cardinality({j \in idx : j <= i}) = k
    IN  [k \in 1..Cardinality(idx) |-> trace[nth(k)].path]

NoUmountYet == \A i \in 1..Len(trace) : trace[i].cmd # "umount"

\* C5: a failed mount command appends nothing: until run's unmount starts,
\* grub_mounts is what run found plus the paths of the mount commands that
\* succeeded, in their order; every tracked path, and every path umount is
\* issued for, is one whose mount command has succeeded.
C5_OnlySuccessfulMountsTracked ==
    /\ (calls = <<"run">> /\ pc # "unmount_loop" /\ NoUmountYet)
           => grub_mounts = run_entry.grub_mounts \o OkMountPaths
    /\ \A i \in 1..Len(grub_mounts) : grub_mounts[i] \in ever_mounted
    /\ \A i \in 1..Len(trace) :
           trace[i].cmd = "umount" => trace[i].path \in ever_mounted

\* A mount command has failed after two that succeeded.
C5_Witness ==
    /\ RunFailed
    /\ Len(trace) = 3
    /\ Last(trace).cmd = "mount"
    /\ ~Last(trace).ok
    /\ Len(grub_mounts) = 2

\* ------------------------------------------------------------------- C6
NoMountCommand == \A i \in 1..Len(trace) : trace[i].cmd # "mount"

\* What run found is what there is.
UntouchedByRun ==
    /\ dirs = run_entry.dirs
    /\ grub_mounts = run_entry.grub_mounts
    /\ hasattr_grub_mounts = run_entry.hasattr_grub_mounts

\* C6: run on a step whose grub is present and not "uefi" fails at the
\* flavor check of line 98 (the code's configuration error is an
\* AssertionError), with no mount command issued, no directory created and
\* grub_mounts as run found it.
C6_WrongFlavorFailsBeforeMounts ==
    (calls # <<>> /\ Head(calls) = "run" /\ pc # "run"
        /\ HasKey(step, "grub") /\ step["grub"] # "uefi")
        => /\ run_result = Raised("AssertionError", 98)
           /\ NoMountCommand
           /\ dirs = run_entry.dirs
           /\ calls = <<"run">> => UntouchedByRun /\ trace = <<>>

\* run has failed on a step that is right in all but its flavor.
C6_Witness ==
    /\ RunFailed
    /\ step = MkStep("bios", "/img.raw", "root", "p1", "p2")
    /\ parts["p1"] = GoodRootDevice
    /\ trace = <<>>

\* ------------------------------------------------------------------- C7
\* A key among device, root-fs, root-part, efi-part is missing, or a tag
\* does not resolve in state.mounts / state.parts.
BadKeys(s) ==
    \/ \E k \in {"device", "root-fs", "root-part", "efi-part"} : ~HasKey(s, k)
    \/ s["root-fs"] \notin DOMAIN mounts
    \/ s["root-part"] \notin DOMAIN parts
    \/ s["efi-part"] \notin DOMAIN parts

\* C7: run on a step with a missing key or an unresolvable tag fails with a
\* KeyError (or at the flavor check before it) and has done nothing: no
\* mount, chroot or write, no directory created, grub_mounts as run found it.
C7_BadKeysFailBeforeAnyAction ==
    (calls # <<>> /\ Head(calls) = "run" /\ pc # "run" /\ BadKeys(step))
        => /\ run_result.status = "raised"
           /\ run_result.exc \in {"KeyError", "AssertionError"}
           /\ run_result.line < 114
           /\ \A i \in 1..Len(trace) : trace[i].cmd = "umount"
           /\ dirs = run_entry.dirs
           /\ calls = <<"run">> => UntouchedByRun /\ trace = <<>>

\* run has failed at its last lookup, every other input being right.
C7_Witness ==
    /\ RunFailed
    /\ step = MkStep("uefi", "/img.raw", "root", "p1", "nopart")
    /\ parts["p1"] = GoodRootDevice
    /\ run_result = Raised("KeyError", 112)

\* ------------------------------------------------------------------- C8
\* A decimal number: one digit or more.
IsNumber(t) == t # <<>> /\ \A i \in 1..Len(t) : t[i] \in Digits

\* The ways to read d as <dir>/loop<N>p<M>: <<a, b>> with "loop" at a, the
\* "p" at b, a '/' before "loop", and numbers between and after.
LoopShapes(d) ==
    { ab \in (1..Len(d)) \X (1..Len(d)) :
        /\ ab[1] >= 2
        /\ d[ab[1] - 1] = "/"
        /\ ab[1] + 4 <= ab[2]
        /\ SubSeq(d, ab[1], ab[1] + 3) = <<"l", "o", "o", "p">>
        /\ IsNumber(SubSeq(d, ab[1] + 4, ab[2] - 1))
        /\ d[ab[2]] = "p"
        /\ IsNumber(SubSeq(d, ab[2] + 1, Len(d))) }

\* /dev/loop<N> for the reading ab of d.
WholeDisk(d, ab) ==
    <<"/", "d", "e", "v", "/", "l", "o", "o", "p">> \o SubSeq(d, ab[1] + 4, ab[2] - 1)

\* d without one final newline.
Chomp(d) == IF d # <<>> /\ d[Len(d)] = "\n" THEN SubSeq(d, 1, Len(d) - 1) ELSE d

\* The readings of d as /dev/mapper/loop<N>p<M>.
MapperShapes(d) ==
    {ab \in LoopShapes(d) : SubSeq(d, 1, ab[1] - 1) = DEV_MAPPER}

\* run is past line 114 with image_dev set to dev.
DerivedLoopDevice(dev) ==
    /\ run_result.exc # "AssertionError"
    /\ image_dev = dev

\* run has failed in get_image_loop_device and has mounted nothing.
ExtractionFailedBeforeMounts ==
    /\ RunFailed
    /\ run_result.exc = "AssertionError"
    /\ run_result.line \in {157, 160}
    /\ trace = <<>>
    /\ mounted = <<>>
    /\ UntouchedByRun

\* C8, as claimed: every root partition device <dir>/loop<N>p<M>, whatever
\* the directory, yields /dev/loop<N>, and every other name makes the
\* extraction fail with nothing mounted.  (Refuted: the code takes
\* /dev/mapper only.)
C8_AnyPrefixLoopDevice ==
    pc # "run" =>
        LET d == parts[step["root-part"]] IN
        IF LoopShapes(d) # {}
        THEN \E ab \in LoopShapes(d) : DerivedLoopDevice(WholeDisk(d, ab))
        ELSE ExtractionFailedBeforeMounts

\* C8, amended: a root partition device /dev/mapper/loop<N>p<M>, with or
\* without one final newline, yields /dev/loop<N>; every other name makes
\* the extraction fail with an AssertionError before the first mount, so
\* nothing is mounted.
C8_MapperLoopDevice ==
    pc # "run" =>
        LET d == parts[step["root-part"]] IN
        IF MapperShapes(Chomp(d)) # {}
        THEN \E ab \in MapperShapes(Chomp(d)) :
                 DerivedLoopDevice(WholeDisk(Chomp(d), ab))
        ELSE ExtractionFailedBeforeMounts

\* /dev/mapper/loop30p3 has given /dev/loop30 and the mounts have begun.
C8_Witness ==
    /\ parts["p1"] = DEV_MAPPER_LOOP \o <<"3", "0", "p", "3">>
    /\ image_dev = <<"/", "d", "e", "v", "/", "l", "o", "o", "p", "3", "0">>
    /\ Len(grub_mounts) = 1

\* ------------------------------------------------------------------- C9
\* The fixed kernel parameter string.
PARAM_STRING ==
    <<"b", "i", "o", "s", "d", "e", "v", "n", "a", "m", "e", "=", "0", " ",
      "n", "e", "t", ".", "i", "f", "n", "a", "m", "e", "s", "=", "0", " ",
      "c", "o", "n", "s", "o", "l", "e", "b", "l", "a", "n", "k", "=", "0", " ",
      "s", "y", "s", "t", "e", "m", "d", ".", "s", "h", "o", "w", "_",
      "s", "t", "a", "t", "u", "s", "=", "t", "r", "u", "e">>

FixedLine == CMDLINE_KEY \o <<"=", "\"">> \o PARAM_STRING \o <<"\"">>

\* A line GRUB_CMDLINE_LINUX_DEFAULT=...
IsAssignment(line) == StartsWith(line, CMDLINE_KEY \o <<"=">>)

NotAssignment(line) == ~IsAssignment(line)

\* A line that begins with GRUB_CMDLINE_LINUX_DEFAULT, whatever follows.
BeginsWithKey(line) == StartsWith(line, CMDLINE_KEY)

NotBeginsWithKey(line) == ~BeginsWithKey(line)

\* set_grub_cmdline_config has rewritten the file in this run.
Rewritten == \E i \in 1..Len(trace) : trace[i].cmd = "write"

\* One assignment line, the last line, set to the fixed string; one final
\* newline; the lines before the last are `kept`.
RewrittenAs(kept) ==
    LET out == grub_file.text
        lines == splitlines(out)
    IN  /\ Cardinality({i \in 1..Len(lines) : IsAssignment(lines[i])}) = 1
        /\ lines # <<>>
        /\ lines[Len(lines)] = FixedLine
        /\ SubSeq(lines, 1, Len(lines) - 1) = kept
        /\ out[Len(out)] = "\n"
        /\ out[Len(out) - 1] # "\n"

\* C9, as claimed: the rewrite keeps, in order, every line that is not a
\* GRUB_CMDLINE_LINUX_DEFAULT= assignment.  (Refuted: a line that begins
\* with GRUB_CMDLINE_LINUX_DEFAULT and is no assignment is removed too.)
C9_NonAssignmentsPreserved ==
    Rewritten => RewrittenAs(SelectSeq(splitlines(text_read), NotAssignment))

\* C9, amended: after the rewrite exactly one GRUB_CMDLINE_LINUX_DEFAULT=
\* line remains, it is the last line and is set to the fixed string, the
\* lines before it are the lines of the input that do not begin with
\* GRUB_CMDLINE_LINUX_DEFAULT, in their order, and the file ends with a
\* single newline.
C9_LinesNotBeginningWithKeyPreserved ==
    Rewritten => RewrittenAs(SelectSeq(splitlines(text_read), NotBeginsWithKey))

\* The input had an assignment and another line; the other line was kept.
C9_Witness ==
    /\ Rewritten
    /\ text_read = CMDLINE_KEY \o <<"=", "q", "\r", "\n">> \o GRUB_TIMEOUT_LINE
    /\ splitlines(grub_file.text) = <<GRUB_TIMEOUT_LINE, FixedLine>>

\* ------------------------------------------------------------------ C10
\* The operations of a run on chroot c, EFI device e and loop device img,
\* in the claimed order, before the unmount.
ExpectedOps(c, e, img) ==
    << Cmd("mount", <<"--bind">>, <<"dev">>, c \o <<"dev">>, TRUE),
       Cmd("mount", <<"--bind">>, <<"proc">>, c \o <<"proc">>, TRUE),
       Cmd("mount", <<"--bind">>, <<"sys">>, c \o <<"sys">>, TRUE),
       Cmd("mount", <<>>, e, c \o <<"boot", "efi">>, TRUE),
       Cmd("chroot",
           <<"apt-get", "-y", "--no-show-progress", "install", "grub-efi-amd64">>,
           <<>>, c, TRUE),
       Cmd("write", <<>>, <<>>, c \o <<"etc", "default", "grub">>, TRUE),
       Cmd("chroot", <<"grub-mkconfig", "-o", "/boot/grub/grub.cfg">>, <<>>, c, TRUE),
       Cmd("chroot",
           <<"grub-install", "--target=x86_64-efi", "--no-nvram",
             "--force-extra-removable", "--no-floppy",
             "--modules=part_msdos part_gpt",
             "--grub-mkdevicemap=/boot/grub/device.map">>,
           img, c, TRUE) >>

NumberOfOps == Len(ExpectedOps(<<>>, <<>>, <<>>))

\* C10: while run is the only entry point called, what it has done is a
\* beginning of: validation and loop-device derivation, bind mounts of /dev,
\* /proc, /sys, mount of the EFI device at /boot/efi, apt-get install,
\* rewrite, grub-mkconfig, grub-install, umounts; only the last operation
\* done can have failed; and when grub-install has run all four mount
\* points are mounted.
C10_FixedOrderEachAfterSuccess ==
    (calls = <<"run">> /\ trace # <<>>)
        => LET n == Len(trace)
               exp == ExpectedOps(mounts[step["root-fs"]], parts[step["efi-part"]],
                          <<"/", "d", "e", "v", "/", "l", "o", "o", "p", "3">>)
           IN  /\ pc # "run"
               /\ step["grub"] = "uefi"
               /\ ~BadKeys(step)
               /\ parts[step["root-part"]] = GoodRootDevice
               /\ \A i \in 1..n :
                    /\ i < n => trace[i].ok
                    /\ IF i <= NumberOfOps
                       THEN trace[i] = [exp[i] EXCEPT !.ok = trace[i].ok]
                       ELSE trace[i].cmd = "umount"
               /\ n = NumberOfOps =>
                    \A i \in 1..4 : IsMounted(exp[i].path)

\* run has returned after all its operations and four umounts.
C10_Witness ==
    /\ pc = "returned"
    /\ calls = <<"run">>
    /\ run_result = Returned
    /\ Len(trace) = NumberOfOps + 4
    /\ \A i \in 1..Len(trace) : trace[i].ok

\* ------------------------------------------------------------------ C11
\* A call of unmount (from run, line 143, or from teardown) is over.
UnmountOver ==
    /\ pc = "returned"
    /\ \/ Last(calls) = "teardown"
       \/ run_result = Returned
       \/ run_result = Raised("cliapp.AppException", 153)

\* C11: when a call of unmount has ended without error, state.grub_mounts
\* is empty; and a teardown that follows a run whose unmount ended without
\* error returns having issued no umount command and changed nothing.
C11_UnmountIdempotent ==
    /\ (UnmountOver /\ CurrentResult = Returned) => grub_mounts = <<>>
    /\ (TeardownAfterRunOver /\ run_result = Returned)
           => /\ teardown_result = Returned
              /\ UmountsOfThisCall = <<>>
              /\ unmount_entry.grub_mounts = <<>>
              /\ grub_mounts = <<>>
              /\ hasattr_grub_mounts = unmount_entry.hasattr_grub_mounts

\* run mounted four paths and unmounted them; teardown came after it.
C11_Witness ==
    /\ TeardownAfterRunOver
    /\ run_result = Returned
    /\ teardown_result = Returned
    /\ Len(appended) = 4
    /\ Len(trace) = NumberOfOps + 4

\* ------------------------------------------------------------------ C12
\* C12: when a call of unmount is over, umount has been attempted on every
\* path that was tracked when it started, whether or not one of the umount
\* commands failed.  (Stated as claimed; the exception of a failed umount
\* leaves the loop, so TLC refutes it.)
C12_CleanupAttemptsEveryPath ==
    UnmountOver
        => \A i \in 1..Len(unmount_entry.grub_mounts) :
               \E k \in 1..Len(UmountsOfThisCall) :
                   UmountsOfThisCall[k] = unmount_entry.grub_mounts[i]

\* ------------------------------------------------------------------ C13
\* The paths umount has been issued for in this step execution.
UmountPaths ==
    {trace[i].path : i \in {j \in 1..Len(trace) : trace[j].cmd = "umount"}}

\* C13: whatever calls came before on the same state object, run finds
\* grub_mounts empty, and the paths unmounted at the end of a run are
\* exactly the paths this run mounted.  (Stated as claimed; run never
\* resets grub_mounts, so TLC refutes it.)
C13_StartsEmptyPerInvocation ==
    /\ (calls # <<>> /\ Head(calls) = "run") => run_entry.grub_mounts = <<>>
    /\ (pc = "returned" /\ calls = <<"run">> /\ run_result = Returned)
           => UmountPaths = {appended[i] : i \in 1..Len(appended)}

\* ------------------------------------------------------------------ C14
\* C14: the paths in grub_mounts are the paths this component has mounted
\* and not yet successfully unmounted.  (Stated as claimed; a path is
\* popped before its umount command runs, so TLC refutes it.)
C14_TrackingMatchesMounted ==
    {grub_mounts[i] : i \in 1..Len(grub_mounts)}
        = {mounted[i] : i \in 1..Len(mounted)}

\* ------------------------------------------------------------------ C15
\* C15: from the call of run or teardown to its end, and from run's end to
\* the teardown that follows it, no step changes state.mounts, state.parts
\* or the step mapping, whether the call ends by a return or by an error.
C15_OnlyGrubMountsWritten ==
    [][ (pc # "idle" /\ ~(pc = "returned" /\ Last(calls) = "teardown"))
            => UNCHANGED <<step, mounts, parts>> ]_vars

\* run mounted all four paths and failed; teardown has unmounted them.
C15_Witness ==
    /\ TeardownAfterRunOver
    /\ run_result.status = "raised"
    /\ teardown_result = Returned
    /\ Len(appended) = 4
    /\ mounted = <<>>
    /\ step = GoodStep
    /\ mounts = [t \in {"root"} |-> TheChroot]
    /\ parts = PartsWith(GoodRootDevice)

\* ------------------------------------------------------------------ C16
\* The step with its device key set to d.
WithDevice(d) == [step EXCEPT !["device"] = d]

IsGrubInstall(e) == e.cmd = "chroot" /\ e.words # <<>> /\ e.words[1] = "grub-install"

====
